---- MODULE Spec2Model ----
(***************************************************************************)
(* Model of openedx_google_cdn/views.py: the two override entry points     *)
(* (enhanced_handle_videos, custom_video_upload_link_generator) and the    *)
(* upload orchestrator videos_post_cdn with its helpers                    *)
(* cdn_storage_service_bucket and cdn_storage_service_key.                 *)
(*                                                                         *)
(* One behaviour is one request.  The external collaborators (course       *)
(* lookup, toggles, transcript preferences, the object store's signer and  *)
(* the VAL catalog) are modelled by what views.py observes of them: a      *)
(* returned value chosen from a small set, or an exception.  Their effects *)
(* are recorded in the logs signed_urls, val_videos, removed_videos and    *)
(* bucket_clients.                                                         *)
(*                                                                         *)
(* views.py uses the name `storage` at line 218 without importing it.  The  *)
(* variable storage_bound says whether the name is bound in the module's   *)
(* namespace when the request runs: it is FALSE for views.py as it stands  *)
(* (line 218 then raises NameError) and TRUE once the import is supplied.  *)
(*                                                                         *)
(* File names are sequences of code points, so that str.encode('ascii')    *)
(* is computed, not assumed.  Other strings are TLA+ strings and the       *)
(* "{}/{}".format(...) compositions are string concatenations.             *)
(***************************************************************************)
EXTENDS Naturals, Sequences, FiniteSets, TLC

(* ------------------------------ bounds -------------------------------- *)

\* longest 'files' list of a request body
MaxFiles == 2

(* ------------------------ constants of views.py ----------------------- *)

VIDEO_SUPPORTED_FILE_FORMATS == [mp4 |-> "video/mp4", mov |-> "video/quicktime"]

KEY_EXPIRATION_IN_SECONDS == 86400

\* Python's None
None == [none |-> TRUE]

\* dict.values() of a dict with the keys D
Values(d) == {d[k] : k \in DOMAIN d}

(* ------------------------------ settings ------------------------------ *)

GOOGLE_CDN_HOST == "https://cdn.example.com"

GOOGLE_CDN_BUCKET == "cehck1123"

\* settings.VIDEO_UPLOAD_PIPELINE
VIDEO_UPLOAD_PIPELINE == [ROOT_PATH |-> "videos"]

\* dict.get(key, default)
Get(d, k, default) == IF k \in DOMAIN d THEN d[k] ELSE default

(* --------------------------- request inputs --------------------------- *)

\* "a", "b" and "c" followed by e-acute (U+00E9)
FileNames == {<<97>>, <<98>>, <<99, 233>>}

ContentTypes == {"video/mp4", "video/quicktime", "image/png"}

\* an entry of 'files': a dict that may lack either key
FileEntries ==
    {[file_name |-> n, content_type |-> t] : n \in FileNames, t \in ContentTypes}
      \cup {[file_name |-> n] : n \in FileNames}
      \cup {[content_type |-> t] : t \in ContentTypes}

SeqsUpTo(S, n) == UNION {[1..k -> S] : k \in 0..n}

\* request.json of an upload request: a dict with or without 'files'
UploadBodies == {[other |-> "x"]} \cup {[files |-> fs] : fs \in SeqsUpTo(FileEntries, MaxFiles)}

\* the course handle _get_and_validate_course returns when it finds the course
TheCourse == [id |-> "course-v1:edX+DemoX+2024"]

\* str(course.id)
Str(course_id) == course_id

\* a course's transcript preferences, as edxval returns them
TranscriptPreferences == {[provider |-> "Cielo24"], [provider |-> "3PlayMedia"]}

\* json.dumps of a preferences dict
JsonDumps(p) == "{\"provider\": \"" \o p.provider \o "\"}"

\* str(uuid4()): the n-th fresh identifier
Uuid4(n) == "uuid-" \o ToString(n)

\* fmt % arg (arg = <<>> for a plain string)
Fmt(fmt, arg) == [fmt |-> fmt, arg |-> arg]

(* ------------------------------- state -------------------------------- *)

VARIABLES
    entry,            \* which function of views.py the request enters
    request,          \* [method, json, kind]
    ENABLE_GOOGLE_CDN,\* truth of getattr(settings, "ENABLE_GOOGLE_CDN", None)
    storage_bound,    \* is the global name `storage` bound in the module
    pc,               \* position of the handler
    course,           \* result of _get_and_validate_course
    mock_uploads,     \* what use_mock_video_uploads() returned: "unread", "on", "off"
    invoked,          \* which upload function the entry point called
    bucket,           \* local of videos_post_cdn
    req_files,
    resp_files,
    idx,              \* position of the for loop in req_files (1-based)
    file_name,
    edx_video_id,
    cdn_key,          \* the blob object: [name, metadata]
    upload_url,
    uuid_count,       \* uuid4() calls so far
    temp_files,       \* credential files written and left on disk
    bucket_clients,   \* storage clients created
    keys,             \* blobs after metadata was attached, in order
    observed,         \* per composed file: the flag and the lookup result seen
    signed_urls,      \* signed URLs issued, in order
    val_videos,       \* records create_video stored, in order
    removed_videos,   \* remove_video_for_course calls
    ext_failed,       \* an external call raised
    response          \* what the entry function returned or raised

vars == <<entry, request, ENABLE_GOOGLE_CDN, storage_bound, pc, course, mock_uploads,
          invoked, bucket, req_files, resp_files, idx, file_name, edx_video_id,
          cdn_key, upload_url, uuid_count, temp_files, bucket_clients, keys,
          observed, signed_urls, val_videos, removed_videos, ext_failed, response>>

inputs == <<entry, request, ENABLE_GOOGLE_CDN, storage_bound>>

locals == <<bucket, req_files, resp_files, idx, file_name, edx_video_id, cdn_key,
            upload_url, uuid_count>>

effects == <<temp_files, bucket_clients, keys, observed, signed_urls, val_videos, removed_videos>>

NoResponse == [type |-> "none", status |-> 0, data |-> None]

\* the requests a behaviour may start from
Requests ==
    {[method |-> m, json |-> None, kind |-> "none"] : m \in {"GET", "DELETE"}}
      \cup {[method |-> "POST", json |-> None, kind |-> k] :
                k \in {"status_update", "pagination"}}
      \cup {[method |-> "POST", json |-> b, kind |-> "upload"] : b \in UploadBodies}

Init ==
    /\ entry \in {"enhanced_handle_videos", "custom_video_upload_link_generator",
                  "videos_post_cdn"}
    /\ request \in Requests
    /\ entry # "enhanced_handle_videos" => request.kind = "upload"
    /\ ENABLE_GOOGLE_CDN \in BOOLEAN
    /\ storage_bound \in BOOLEAN
    /\ pc = "start"
    /\ course = None
    /\ mock_uploads = "unread"
    /\ invoked = "none"
    /\ bucket = None
    /\ req_files = <<>>
    /\ resp_files = <<>>
    /\ idx = 1
    /\ file_name = <<>>
    /\ edx_video_id = ""
    /\ cdn_key = None
    /\ upload_url = None
    /\ uuid_count = 0
    /\ temp_files = 0
    /\ bucket_clients = 0
    /\ keys = <<>>
    /\ observed = <<>>
    /\ signed_urls = <<>>
    /\ val_videos = <<>>
    /\ removed_videos = <<>>
    /\ ext_failed = FALSE
    /\ response = NoResponse

(* --------------------------- pure helpers ----------------------------- *)

\* file_name.encode('ascii') succeeds: every code point fits in 7 bits
IsAscii(name) == \A j \in 1..Len(name) : name[j] < 128

\* ValidationError with the content-type check looking at the first entry only
ValidationError_FirstEntryOnly(data) ==
    IF "files" \notin DOMAIN data
      THEN Fmt("Request object is not JSON or does not contain 'files'", <<>>)
    ELSE IF \E j \in 1..Len(data.files) :
               \/ "file_name" \notin DOMAIN data.files[j]
               \/ "content_type" \notin DOMAIN data.files[j]
      THEN Fmt("Request 'files' entry does not contain 'file_name' and 'content_type'", <<>>)
    ELSE IF /\ Len(data.files) > 0
            /\ data.files[1].content_type \notin Values(VIDEO_SUPPORTED_FILE_FORMATS)
      THEN Fmt("Request 'files' entry contain unsupported content_type", <<>>)
    ELSE None

\* ValidationError with the content-type check (by file.get) ahead of the field check
ValidationError_TypeBeforeFields(data) ==
    IF "files" \notin DOMAIN data
      THEN Fmt("Request object is not JSON or does not contain 'files'", <<>>)
    ELSE IF \E j \in 1..Len(data.files) :
               /\ "content_type" \in DOMAIN data.files[j]
               /\ data.files[j].content_type \notin Values(VIDEO_SUPPORTED_FILE_FORMATS)
      THEN Fmt("Request 'files' entry contain unsupported content_type", <<>>)
    ELSE IF \E j \in 1..Len(data.files) :
               \/ "file_name" \notin DOMAIN data.files[j]
               \/ "content_type" \notin DOMAIN data.files[j]
      THEN Fmt("Request 'files' entry does not contain 'file_name' and 'content_type'", <<>>)
    ELSE None

\* lines 113-126: the error the up-front validation selects, or None
ValidationError(data) ==
    IF "files" \notin DOMAIN data
      THEN Fmt("Request object is not JSON or does not contain 'files'", <<>>)
    ELSE IF \E j \in 1..Len(data.files) :
               \/ "file_name" \notin DOMAIN data.files[j]
               \/ "content_type" \notin DOMAIN data.files[j]
      THEN Fmt("Request 'files' entry does not contain 'file_name' and 'content_type'", <<>>)
    ELSE IF \E j \in 1..Len(data.files) :
               data.files[j].content_type \notin Values(VIDEO_SUPPORTED_FILE_FORMATS)
      THEN Fmt("Request 'files' entry contain unsupported content_type", <<>>)
    ELSE None

\* line 141: the message of the non-ASCII rejection
NonAsciiMessage(name) ==
    Fmt("The file name for %s must contain only ASCII characters.", name)

\* KeyName without the root path
KeyName_NoRoot(name) == name

\* lines 226-229: the blob name "{ROOT_PATH}/{file_name}"
KeyName(name) == Get(VIDEO_UPLOAD_PIPELINE, "ROOT_PATH", "") \o "/" \o name

\* lines 222-230: bucket.blob(key_name), a blob with no metadata yet
cdn_storage_service_key(b, name) ==
    [bucket |-> b.name, name |-> KeyName(name), metadata |-> None]

\* lines 159-161: the dict built from the (name, value) pairs, later pairs winning
DictOf(list) ==
    [k \in {list[j][1] : j \in 1..Len(list)} |->
        list[CHOOSE j \in 1..Len(list) :
                 /\ list[j][1] = k
                 /\ \A j2 \in (j + 1)..Len(list) : list[j2][1] # k][2]]

\* line 154: get_transcript_preferences is called only when the flag is enabled
LookupCalled(enabled) == enabled

\* MetadataList without the `is not None` test of line 156
MetadataList_NoNoneCheck(name, crs, enabled, prefs) ==
    <<<<"client_video_id", name>>, <<"course_key", Str(crs.id)>>>>
      \o (IF enabled
            THEN <<<<"transcript_preferences",
                     IF prefs # None THEN JsonDumps(prefs) ELSE "null">>>>
            ELSE <<>>)

\* lines 148-157: the metadata pairs, given what the flag and the lookup returned
MetadataList(name, crs, enabled, prefs) ==
    <<<<"client_video_id", name>>, <<"course_key", Str(crs.id)>>>>
      \o (IF enabled /\ prefs # None
            THEN <<<<"transcript_preferences", JsonDumps(prefs)>>>>
            ELSE <<>>)

\* lines 165-170: the URL generate_signed_url returns for a blob
SignedUrl(key, content_type) ==
    [version |-> "v4", expiration |-> KEY_EXPIRATION_IN_SECONDS, method |-> "PUT",
     content_type |-> content_type, bucket |-> key.bucket, key |-> key.name]

\* a value that may be None is held as [some |-> value] or None
Some(v) == [some |-> v]

\* lines 172-179: the playback source, or None when the CDN is not enabled
SourceUrl(video_id) ==
    IF ENABLE_GOOGLE_CDN
      THEN Some(GOOGLE_CDN_HOST \o "/" \o Get(VIDEO_UPLOAD_PIPELINE, "ROOT_PATH", "")
                  \o "/" \o video_id)
      ELSE None

\* lines 182-190: the record handed to create_video
VideoRecord(video_id, name, crs, source_url) ==
    [edx_video_id |-> video_id, status |-> "upload", client_video_id |-> name,
     duration |-> 0, encoded_videos |-> <<>>, courses |-> <<Str(crs.id)>>,
     html5_sources |-> IF source_url # None /\ source_url.some # ""
                         THEN <<source_url.some>> ELSE <<>>]

\* line 192: the response entry of a file
RespEntry(name, url, video_id) ==
    [file_name |-> name, upload_url |-> url, edx_video_id |-> video_id]

\* the entry point's wrapping of videos_post_cdn's (data, status): lines 78 and 93
Wrap(data, status) ==
    [type |-> IF entry = "enhanced_handle_videos" THEN "JsonResponse"
              ELSE IF entry = "custom_video_upload_link_generator" THEN "Response"
              ELSE "tuple",
     status |-> status, data |-> data]

\* an exception leaving the entry function
Raised(exc) == [type |-> "raise", status |-> 500, data |-> [exception |-> exc]]

\* NotFoundGuard with the toggle read the wrong way round
NotFoundGuard_Inverted(crs, mock) == crs = None /\ mock

\* line 57: the guard of the not-found short-circuit of enhanced_handle_videos
NotFoundGuard(crs, mock) == crs = None /\ ~mock

\* line 86: the guard of the short-circuit of custom_video_upload_link_generator
LinkNotFoundGuard(crs) == crs = None

(* ---------------------------- entry points ---------------------------- *)

\* lines 55-58
EnhancedEntry ==
    /\ pc = "start"
    /\ entry = "enhanced_handle_videos"
    /\ \E crs \in {None, TheCourse}, mock \in BOOLEAN :
         /\ course' = crs
         /\ mock_uploads' = IF crs # None THEN "unread" ELSE IF mock THEN "on" ELSE "off"
         /\ crs # None => mock   \* the toggle is not read when the course is found
         /\ IF NotFoundGuard(crs, mock)
              THEN /\ response' = [type |-> "HttpResponseNotFound", status |-> 404,
                                   data |-> None]
                   /\ pc' = "done"
              ELSE /\ response' = response
                   /\ pc' = "dispatch"
    /\ UNCHANGED <<inputs, invoked, locals, effects, ext_failed>>

\* lines 60-64
HandleGet ==
    /\ pc = "dispatch"
    /\ request.method = "GET"
    /\ response' = [type |-> "videos_index", status |-> 200, data |-> None]
    /\ pc' = "done"
    /\ UNCHANGED <<inputs, course, mock_uploads, invoked, locals, effects, ext_failed>>

\* lines 65-67
HandleDelete ==
    /\ pc = "dispatch"
    /\ request.method = "DELETE"
    /\ removed_videos' = Append(removed_videos, "remove_video_for_course")
    /\ response' = [type |-> "JsonResponse", status |-> 200, data |-> None]
    /\ pc' = "done"
    /\ UNCHANGED <<inputs, course, mock_uploads, invoked, locals, temp_files,
                   bucket_clients, keys, observed, signed_urls, val_videos, ext_failed>>

\* lines 69-70
HandleStatusUpdate ==
    /\ pc = "dispatch"
    /\ request.method \notin {"GET", "DELETE"}
    /\ request.kind = "status_update"
    /\ response' = [type |-> "send_video_status_update", status |-> 200, data |-> None]
    /\ pc' = "done"
    /\ UNCHANGED <<inputs, course, mock_uploads, invoked, locals, effects, ext_failed>>

\* lines 71-72
HandlePagination ==
    /\ pc = "dispatch"
    /\ request.method \notin {"GET", "DELETE"}
    /\ request.kind = "pagination"
    /\ response' = [type |-> "_update_pagination_context", status |-> 200, data |-> None]
    /\ pc' = "done"
    /\ UNCHANGED <<inputs, course, mock_uploads, invoked, locals, effects, ext_failed>>

\* lines 74-77 and 89-92: the choice between videos_post_cdn and the host's videos_post
CallUpload ==
    IF ENABLE_GOOGLE_CDN
      THEN /\ invoked' = "videos_post_cdn"
           /\ pc' = "validate"
           /\ response' = response
      ELSE /\ invoked' = "videos_post"
           /\ pc' = "done"
           /\ response' = Wrap([host |-> "videos_post"], 200)

\* lines 74-78
HandlePost ==
    /\ pc = "dispatch"
    /\ request.method \notin {"GET", "DELETE"}
    /\ request.kind = "upload"
    /\ CallUpload
    /\ UNCHANGED <<inputs, course, mock_uploads, locals, effects, ext_failed>>

\* lines 85-87
LinkGeneratorEntry ==
    /\ pc = "start"
    /\ entry = "custom_video_upload_link_generator"
    /\ \E crs \in {None, TheCourse} :
         /\ course' = crs
         /\ IF LinkNotFoundGuard(crs)
              THEN /\ response' = [type |-> "Response", status |-> 400,
                                   data |-> "Course Not Found"]
                   /\ pc' = "done"
              ELSE /\ response' = response
                   /\ pc' = "link_post"
    /\ UNCHANGED <<inputs, mock_uploads, invoked, locals, effects, ext_failed>>

\* lines 89-93
LinkGeneratorPost ==
    /\ pc = "link_post"
    /\ CallUpload
    /\ UNCHANGED <<inputs, course, mock_uploads, locals, effects, ext_failed>>

\* a caller that invokes videos_post_cdn(course, request) itself
DirectCall ==
    /\ pc = "start"
    /\ entry = "videos_post_cdn"
    /\ course' = TheCourse
    /\ invoked' = "videos_post_cdn"
    /\ pc' = "validate"
    /\ UNCHANGED <<inputs, mock_uploads, locals, effects, ext_failed, response>>


(* --------------------------- videos_post_cdn -------------------------- *)

\* videos_post_cdn returns (data, status) to its caller
Return(data, status) ==
    /\ response' = Wrap(data, status)
    /\ pc' = "done"

\* an exception propagates out of videos_post_cdn and of the entry point
Raise(exc) ==
    /\ response' = Raised(exc)
    /\ pc' = "done"

\* lines 113-129: the up-front validation
Validate ==
    /\ pc = "validate"
    /\ LET error == ValidationError(request.json) IN
         IF error # None
           THEN Return([error |-> error], 400)
           ELSE /\ pc' = "bucket"
                /\ response' = response
    /\ UNCHANGED <<inputs, course, mock_uploads, invoked, locals, effects, ext_failed>>

\* lines 131-133 with cdn_storage_service_bucket, lines 204-219.  The credentials are
\* written to a temporary file (delete=False) before line 218 looks up `storage`,
\* a name views.py never imports: unless the name is bound in the module, line 218
\* raises NameError.
CdnStorageServiceBucket ==
    /\ pc = "bucket"
    /\ temp_files' = temp_files + 1
    /\ IF ~storage_bound
         THEN /\ Raise("NameError")
              /\ UNCHANGED <<bucket, req_files, resp_files, bucket_clients, ext_failed>>
         ELSE \/ /\ bucket' = [name |-> GOOGLE_CDN_BUCKET]
                 /\ bucket_clients' = bucket_clients + 1
                 /\ req_files' = request.json.files
                 /\ resp_files' = <<>>
                 /\ pc' = "loop"
                 /\ UNCHANGED <<response, ext_failed>>
              \/ /\ Raise("CredentialError")
                 /\ ext_failed' = TRUE
                 /\ UNCHANGED <<bucket, req_files, resp_files, bucket_clients>>
    /\ UNCHANGED <<inputs, course, mock_uploads, invoked, idx, file_name, edx_video_id,
                   cdn_key, upload_url, uuid_count, keys, observed, signed_urls,
                   val_videos, removed_videos>>

\* lines 135-142: the next file of the loop and its ASCII check
CheckFileName ==
    /\ pc = "loop"
    /\ idx <= Len(req_files)
    /\ file_name' = req_files[idx].file_name
    /\ IF IsAscii(req_files[idx].file_name)
         THEN /\ pc' = "derive"
              /\ response' = response
         ELSE Return([error |-> NonAsciiMessage(req_files[idx].file_name)], 400)
    /\ UNCHANGED <<inputs, course, mock_uploads, invoked, bucket, req_files, resp_files,
                   idx, edx_video_id, cdn_key, upload_url, uuid_count, effects,
                   ext_failed>>

\* lines 144-146: a fresh identifier and its blob
DeriveKey ==
    /\ pc = "derive"
    /\ uuid_count' = uuid_count + 1
    /\ edx_video_id' = Uuid4(uuid_count + 1)
    /\ cdn_key' = cdn_storage_service_key(bucket, Uuid4(uuid_count + 1))
    /\ pc' = "metadata"
    /\ UNCHANGED <<inputs, course, mock_uploads, invoked, bucket, req_files, resp_files,
                   idx, file_name, upload_url, effects, ext_failed, response>>

\* lines 148-163: the metadata of the blob.  course is None when enhanced_handle_videos
\* went on without a course; course.id then raises AttributeError at line 150.
ComposeMetadata ==
    /\ pc = "metadata"
    /\ IF course = None
         THEN /\ Raise("AttributeError")
              /\ UNCHANGED <<cdn_key, keys, observed, ext_failed>>
         ELSE \/ \E enabled \in BOOLEAN, prefs \in TranscriptPreferences \cup {None} :
                   /\ ~LookupCalled(enabled) => prefs = None   \* nothing was looked up
                   /\ cdn_key' = [cdn_key EXCEPT !.metadata =
                                     DictOf(MetadataList(file_name, course, enabled, prefs))]
                   /\ keys' = Append(keys, cdn_key')
                   /\ observed' = Append(observed,
                                         [enabled |-> enabled, looked_up |-> LookupCalled(enabled),
                                          prefs |-> prefs])
                   /\ pc' = "sign"
                   /\ UNCHANGED <<response, ext_failed>>
              \/ /\ Raise("UpstreamLookupError")
                 /\ ext_failed' = TRUE
                 /\ UNCHANGED <<cdn_key, keys, observed>>
    /\ UNCHANGED <<inputs, course, mock_uploads, invoked, bucket, req_files, resp_files,
                   idx, file_name, edx_video_id, upload_url, uuid_count, temp_files,
                   bucket_clients, signed_urls, val_videos, removed_videos>>

\* lines 165-170: the signed URL, or the signer's exception
GenerateSignedUrl ==
    /\ pc = "sign"
    /\ \/ /\ upload_url' = SignedUrl(cdn_key, req_files[idx].content_type)
          /\ signed_urls' = Append(signed_urls, upload_url')
          /\ pc' = "register"
          /\ UNCHANGED <<response, ext_failed>>
       \/ /\ Raise("SigningError")
          /\ ext_failed' = TRUE
          /\ UNCHANGED <<upload_url, signed_urls>>
    /\ UNCHANGED <<inputs, course, mock_uploads, invoked, bucket, req_files, resp_files,
                   idx, file_name, edx_video_id, cdn_key, uuid_count, temp_files,
                   bucket_clients, keys, observed, val_videos, removed_videos>>

\* CreateVideo undoing the earlier files' records when the catalog fails
CreateVideo_Rollback ==
    /\ pc = "register"
    /\ \/ /\ val_videos' = Append(val_videos,
                                  VideoRecord(edx_video_id, file_name, course,
                                              SourceUrl(edx_video_id)))
          /\ pc' = "append"
          /\ UNCHANGED <<response, ext_failed>>
       \/ /\ Raise("CatalogWriteError")
          /\ ext_failed' = TRUE
          /\ val_videos' = <<>>
    /\ UNCHANGED <<inputs, course, mock_uploads, invoked, locals, temp_files,
                   bucket_clients, keys, observed, signed_urls, removed_videos>>

\* lines 172-190: the playback source and create_video, or the catalog's exception
CreateVideo ==
    /\ pc = "register"
    /\ \/ /\ val_videos' = Append(val_videos,
                                  VideoRecord(edx_video_id, file_name, course,
                                              SourceUrl(edx_video_id)))
          /\ pc' = "append"
          /\ UNCHANGED <<response, ext_failed>>
       \/ /\ Raise("CatalogWriteError")
          /\ ext_failed' = TRUE
          /\ UNCHANGED val_videos
    /\ UNCHANGED <<inputs, course, mock_uploads, invoked, locals, temp_files,
                   bucket_clients, keys, observed, signed_urls, removed_videos>>

\* line 192, and the loop moves on
AppendResponse ==
    /\ pc = "append"
    /\ resp_files' = Append(resp_files, RespEntry(file_name, upload_url, edx_video_id))
    /\ idx' = idx + 1
    /\ pc' = "loop"
    /\ UNCHANGED <<inputs, course, mock_uploads, invoked, bucket, req_files, file_name,
                   edx_video_id, cdn_key, upload_url, uuid_count, effects, ext_failed,
                   response>>

\* line 194
ReturnFiles ==
    /\ pc = "loop"
    /\ idx > Len(req_files)
    /\ Return([files |-> resp_files], 200)
    /\ UNCHANGED <<inputs, course, mock_uploads, invoked, locals, effects, ext_failed>>

Next ==
    \/ EnhancedEntry
    \/ HandleGet
    \/ HandleDelete
    \/ HandleStatusUpdate
    \/ HandlePagination
    \/ HandlePost
    \/ LinkGeneratorEntry
    \/ LinkGeneratorPost
    \/ DirectCall
    \/ Validate
    \/ CdnStorageServiceBucket
    \/ CheckFileName
    \/ DeriveKey
    \/ ComposeMetadata
    \/ GenerateSignedUrl
    \/ CreateVideo
    \/ AppendResponse
    \/ ReturnFiles

Spec == Init /\ [][Next]_vars

(* ======================= the claims about views.py ===================== *)

(* ---- vocabulary of the claims, stated on the request and the logs ----- *)

InCdn == invoked = "videos_post_cdn"

Returned == pc = "done" /\ InCdn

HasFiles == "files" \in DOMAIN request.json

ReqFiles == request.json.files

N == Len(ReqFiles)

LacksField(e) == "file_name" \notin DOMAIN e \/ "content_type" \notin DOMAIN e

AnyLacksField == \E j \in 1..N : LacksField(ReqFiles[j])

Unsupported(e) == e.content_type \notin {"video/mp4", "video/quicktime"}

AnyUnsupported == \E j \in 1..N : ~LacksField(ReqFiles[j]) /\ Unsupported(ReqFiles[j])

\* the three structural checks pass for the whole batch
StructurallyValid ==
    /\ HasFiles
    /\ \A j \in 1..N : ~LacksField(ReqFiles[j]) /\ ~Unsupported(ReqFiles[j])

NonAsciiName(name) == \E j \in 1..Len(name) : name[j] > 127

AllAscii == \A j \in 1..N : ~NonAsciiName(ReqFiles[j].file_name)

\* k is the (1-based) position of the first non-ASCII file name
FirstNonAsciiAt(k) ==
    /\ k \in 1..N
    /\ NonAsciiName(ReqFiles[k].file_name)
    /\ \A j \in 1..(k - 1) : ~NonAsciiName(ReqFiles[j].file_name)

IsError400 == response.status = 400 /\ "error" \in DOMAIN response.data

Is200Files == response.status = 200 /\ "files" \in DOMAIN response.data

NoSideEffects == signed_urls = <<>> /\ val_videos = <<>>

MsgNoFiles == "Request object is not JSON or does not contain 'files'"

MsgMissingField == "Request 'files' entry does not contain 'file_name' and 'content_type'"

MsgUnsupported == "Request 'files' entry contain unsupported content_type"

MsgNonAscii == "The file name for %s must contain only ASCII characters."

(* ------------------------------- C1 ----------------------------------- *)

\* C1: a batch that passes validation, with only ASCII file names, for a course that
\* was found and with no external call failing, is answered with status 200 and a
\* 'files' list of the request's length whose entry i carries the file_name of
\* request entry i.
C1_OrderPreserved200 ==
    (Returned /\ course # None /\ StructurallyValid /\ AllAscii /\ ~ext_failed)
      => /\ Is200Files
         /\ Len(response.data.files) = N
         /\ \A j \in 1..N : response.data.files[j].file_name = ReqFiles[j].file_name

(* ------------------------------- C2 ----------------------------------- *)

\* C2: when the body has no 'files', or an entry lacks file_name or content_type, or
\* an entry's content_type is outside {video/mp4, video/quicktime}, videos_post_cdn
\* creates no bucket client, issues no signed URL and creates no catalog record at any
\* point of the call, and it returns ({'error': ...}, 400).
C2_InvalidBatch400NoEffects ==
    (InCdn /\ (~HasFiles \/ AnyLacksField \/ AnyUnsupported))
      => /\ bucket_clients = 0
         /\ temp_files = 0
         /\ NoSideEffects
         /\ pc \in {"validate", "done"}
         /\ pc = "done" => IsError400

\* C2 witness: a batch whose first entry is valid and whose second has an unsupported
\* content_type has been rejected.
C2_Witness ==
    /\ Returned
    /\ HasFiles
    /\ N = 2
    /\ ~AnyLacksField
    /\ ~Unsupported(ReqFiles[1])
    /\ Unsupported(ReqFiles[2])
    /\ IsError400

(* ------------------------------- C3 ----------------------------------- *)

C4_PartialCommitOnNonAscii ==
    \A k \in 1..MaxFiles + 1 :
      (Returned /\ course # None /\ StructurallyValid /\ FirstNonAsciiAt(k) /\ ~ext_failed)
        => /\ IsError400
           /\ response.data.error.fmt = MsgNonAscii
           /\ response.data.error.arg = ReqFiles[k].file_name
           /\ "files" \notin DOMAIN response.data
           /\ Len(signed_urls) = k - 1
           /\ Len(val_videos) = k - 1
           /\ \A j \in 1..(k - 1) :
                /\ val_videos[j].client_video_id = ReqFiles[j].file_name
                /\ signed_urls[j].key = "videos/" \o val_videos[j].edx_video_id

(* ------------------------------- C5 ----------------------------------- *)

NoCatalogOrStoreEffects == NoSideEffects /\ removed_videos = <<>> /\ bucket_clients = 0

IsNotFoundResponse ==
    \/ response.type = "HttpResponseNotFound" /\ response.status = 404
    \/ response.type = "Response" /\ response.status = 400

CourseLookupFailed ==
    /\ entry \in {"enhanced_handle_videos", "custom_video_upload_link_generator"}
    /\ pc # "start"
    /\ course = None

\* C5 as stated: whenever the course lookup fails, both entry points short-circuit
\* with a not-found response, whatever the method and the mock-video-uploads toggle:
\* neither upload function is invoked and nothing is signed, created or removed.
C5_ShortCircuitRegardlessOfToggle ==
    CourseLookupFailed
      => /\ invoked = "none"
         /\ NoCatalogOrStoreEffects
         /\ pc = "done" => IsNotFoundResponse

\* C5 amended: when the course lookup fails, custom_video_upload_link_generator
\* always short-circuits (400 'Course Not Found') and enhanced_handle_videos
\* short-circuits (404) when the mock-video-uploads toggle is off, for every method:
\* neither upload function is invoked and nothing is signed, created or removed.
C5_ShortCircuitWhenToggleOff ==
    (CourseLookupFailed /\ (entry = "enhanced_handle_videos" => mock_uploads = "off"))
      => /\ pc = "done"
         /\ IsNotFoundResponse
         /\ invoked = "none"
         /\ NoCatalogOrStoreEffects

\* C5 witness: enhanced_handle_videos answered 404 to an upload of a valid batch for a
\* course that was not found, the toggle being off and the CDN enabled.
C5_Witness ==
    /\ entry = "enhanced_handle_videos"
    /\ pc = "done"
    /\ course = None
    /\ mock_uploads = "off"
    /\ ENABLE_GOOGLE_CDN
    /\ request.kind = "upload"
    /\ StructurallyValid
    /\ N > 0
    /\ response.status = 404

(* ------------------------------- C6 ----------------------------------- *)

\* C6: a batch whose 'files' list is present but empty is rejected with a batch-level
\* 400 error, not answered with status 200 and an empty 'files' list (whenever
\* videos_post_cdn returns a response at all).
C6_EmptyBatchRejected ==
    (Returned /\ HasFiles /\ N = 0 /\ response.type # "raise") => IsError400

(* ------------------------------- C7 ----------------------------------- *)

\* C7: every record videos_post_cdn registers has, when the CDN is enabled, exactly
\* one playback source "{GOOGLE_CDN_HOST}/{ROOT_PATH}/{asset_id}", asset_id being the
\* record's edx_video_id and the id of the response entry, and the source's
\* "{ROOT_PATH}/{asset_id}" part is the key the file's signed URL was issued for; when
\* the CDN is not enabled the record has no playback source.
C7_PlaybackSource ==
    \A j \in 1..Len(val_videos) :
      LET v == val_videos[j] IN
        /\ j <= Len(signed_urls)
        /\ signed_urls[j].key = VIDEO_UPLOAD_PIPELINE.ROOT_PATH \o "/" \o v.edx_video_id
        /\ j <= Len(resp_files) => resp_files[j].edx_video_id = v.edx_video_id
        /\ IF ENABLE_GOOGLE_CDN
             THEN /\ Len(v.html5_sources) = 1
                  /\ v.html5_sources[1] =
                       GOOGLE_CDN_HOST \o "/" \o VIDEO_UPLOAD_PIPELINE.ROOT_PATH
                         \o "/" \o v.edx_video_id
                  /\ v.html5_sources[1] = GOOGLE_CDN_HOST \o "/" \o signed_urls[j].key
             ELSE v.html5_sources = <<>>

\* C7 witness: with the CDN enabled, two files were registered and returned.
C7_Witness ==
    /\ Returned
    /\ ENABLE_GOOGLE_CDN
    /\ Is200Files
    /\ Len(val_videos) = 2
    /\ Len(response.data.files) = 2
    /\ val_videos[2].html5_sources = <<"https://cdn.example.com/videos/uuid-2">>
    /\ response.data.files[2].edx_video_id = "uuid-2"

(* ------------------------------- C8 ----------------------------------- *)

\* C8: the metadata attached to each file's key has client_video_id = the request's
\* file_name and course_key = the course id, and has a transcript_preferences entry
\* exactly when the transcript flag was enabled and the lookup returned a non-null
\* result; the lookup is not called when the flag is disabled.
C8_Metadata ==
    /\ Len(observed) = Len(keys)
    /\ \A j \in 1..Len(keys) :
         LET m == keys[j].metadata IN
           /\ {"client_video_id", "course_key"} \subseteq DOMAIN m
           /\ m.client_video_id = ReqFiles[j].file_name
           /\ m.course_key = "course-v1:edX+DemoX+2024"
           /\ "transcript_preferences" \in DOMAIN m
                <=> (observed[j].enabled /\ observed[j].prefs # None)
           /\ ~observed[j].enabled => ~observed[j].looked_up

\* C8 witness: one call composed the metadata of a file with the flag enabled and
\* preferences returned, and of another with the flag enabled and no preferences.
C8_Witness ==
    /\ InCdn
    /\ Len(keys) = 2
    /\ observed[1].enabled /\ observed[1].prefs # None
    /\ "transcript_preferences" \in DOMAIN keys[1].metadata
    /\ observed[2].enabled /\ observed[2].prefs = None
    /\ "transcript_preferences" \notin DOMAIN keys[2].metadata

(* ------------------------------- C9 ----------------------------------- *)

\* the files before position k are signed and registered, in input order
PrefixCommitted(signedN, registeredN) ==
    /\ Len(signed_urls) = signedN
    /\ Len(val_videos) = registeredN
    /\ \A j \in 1..signedN :
         /\ ~NonAsciiName(ReqFiles[j].file_name)
         /\ signed_urls[j].content_type = ReqFiles[j].content_type
         /\ signed_urls[j].key = keys[j].name
         /\ keys[j].metadata.client_video_id = ReqFiles[j].file_name
    /\ \A j \in 1..registeredN :
         /\ val_videos[j].client_video_id = ReqFiles[j].file_name
         /\ signed_urls[j].key = "videos/" \o val_videos[j].edx_video_id

\* C9: within one call the files are processed in input order and each file in the
\* order ASCII check, signing, registration, response append: the registered ids are
\* always among the signed ids, a file has no side effect before the file ahead of it
\* is registered, and when signing or registration fails at file k the call stops
\* there with files before k still signed and registered and no later file touched.
C9_StepOrder ==
    InCdn =>
      /\ {v.edx_video_id : v \in {val_videos[j] : j \in 1..Len(val_videos)}}
           \subseteq {"uuid-" \o ToString(j) : j \in 1..Len(signed_urls)}
      /\ pc \in {"loop", "derive", "metadata", "sign"}
           => PrefixCommitted(idx - 1, idx - 1) /\ Len(resp_files) = idx - 1
      /\ pc = "register" => PrefixCommitted(idx, idx - 1) /\ Len(resp_files) = idx - 1
      /\ pc = "append" => PrefixCommitted(idx, idx) /\ Len(resp_files) = idx - 1
      /\ (pc = "done" /\ response.type = "raise")
           => /\ response.data.exception = "SigningError"
                   => PrefixCommitted(idx - 1, idx - 1)
              /\ response.data.exception = "CatalogWriteError"
                   => PrefixCommitted(idx, idx - 1)
              /\ response.data.exception \in {"NameError", "CredentialError"}
                   => NoSideEffects
              /\ Len(signed_urls) <= idx

\* C9 witness: registration failed at the second file; the first stays registered and
\* the second was signed but not registered.
C9_Witness ==
    /\ Returned
    /\ HasFiles
    /\ N = 2
    /\ response.type = "raise"
    /\ response.data.exception = "CatalogWriteError"
    /\ idx = 2
    /\ Len(val_videos) = 1
    /\ Len(signed_urls) = 2

(* ------------------------------- C10 ---------------------------------- *)

\* C10: the validation reports one failure class by fixed precedence, wherever the
\* entries stand: a missing 'files' first; else the missing-field error if any entry
\* lacks a field, even next to an entry with an unsupported content_type; the
\* unsupported-content-type error only when every entry has both fields; and the
\* non-ASCII error only when the three structural checks pass for the whole batch.
C10_ErrorPrecedence ==
    Returned =>
      /\ ~HasFiles => IsError400 /\ response.data.error = Fmt(MsgNoFiles, <<>>)
      /\ (HasFiles /\ AnyLacksField)
           => IsError400 /\ response.data.error = Fmt(MsgMissingField, <<>>)
      /\ (HasFiles /\ ~AnyLacksField /\ AnyUnsupported)
           => IsError400 /\ response.data.error = Fmt(MsgUnsupported, <<>>)
      /\ (IsError400 /\ response.data.error.fmt = MsgUnsupported) => ~AnyLacksField
      /\ (IsError400 /\ response.data.error.fmt = MsgNonAscii) => StructurallyValid

\* C10 witness: the first entry has an unsupported content_type, the second lacks a
\* field, and the missing-field error was returned.
C10_Witness ==
    /\ Returned
    /\ HasFiles
    /\ N = 2
    /\ ~LacksField(ReqFiles[1])
    /\ Unsupported(ReqFiles[1])
    /\ LacksField(ReqFiles[2])
    /\ IsError400
    /\ response.data.error.fmt = MsgMissingField

====
